---------------------------- MODULE Spec2Model ----------------------------
(***************************************************************************)
(* Model of the vox8 JavaScript SDK: the Vox8Client session state machine  *)
(* (src/src/index.ts), the WebSocket transport it drives, and the audio    *)
(* helpers it owns (src/src/__tests__/client.test.ts, lines 238-408, hold  *)
(* the text of audio.ts).                                                  *)
(*                                                                         *)
(* One step of the model is one turn of the JavaScript event loop: an      *)
(* application call into the client, or one callback fired by the          *)
(* transport or by the device layer.                                       *)
(***************************************************************************)
EXTENDS Integers, Sequences, FiniteSets, TLC

(***************************************************************************)
(* Bounds of the model.                                                    *)
(***************************************************************************)
\* transports (WebSocket objects) one client creates over its life
MaxSockets == 2
\* transports in the reconnection runs (SpecReconnect)
MaxReconnects == 3
\* segments waiting in one AudioPlayer queue
MaxQueue == 1

(***************************************************************************)
(* Values.                                                                 *)
(***************************************************************************)
\* JavaScript null in an object-valued field, null in a string-valued field,
\* and undefined
Null == [null |-> TRUE]
NullString == "null"
Undefined == "undefined"

\* obj.k of a JavaScript object: undefined when the key is missing
Get(obj, k) == IF k \in DOMAIN obj THEN obj[k] ELSE Undefined

\* JavaScript truthiness of a string-or-undefined value (!x is its negation)
Truthy(v) == v # Undefined /\ v # ""

\* JSON.stringify of a flat object: members whose value is undefined are dropped
JSONstringify(obj) ==
  [k \in {j \in DOMAIN obj : obj[j] # Undefined} |-> obj[k]]

\* The configurations handed to the constructor (Vox8Config, all keys optional
\* at run time) together with the handlers object.
AllHandlers == {"onTranscript", "onAudio", "onError", "onSessionReady", "onSessionComplete"}

CtorInputs ==
  { [config |-> [wsUrl |-> "wss://test.com", targetLanguage |-> "es"],
     handlers |-> AllHandlers],
    [config |-> [wsUrl |-> "wss://test.com", targetLanguage |-> "es", sessionToken |-> ""],
     handlers |-> AllHandlers],
    [config |-> [wsUrl |-> "wss://test.com", targetLanguage |-> "es", sessionToken |-> "tok"],
     handlers |-> AllHandlers],
    [config |-> [wsUrl |-> "wss://test.com", targetLanguage |-> "fr", apiKey |-> "key",
                 sourceLanguage |-> "en", voiceMode |-> "male"],
     handlers |-> AllHandlers],
    [config |-> [wsUrl |-> "wss://test.com", targetLanguage |-> "es", sessionToken |-> "tok",
                 apiKey |-> "key"],
     handlers |-> {}] }

\* Inbound text frames.  parse = FALSE is text JSON.parse rejects.
Frame(m) == [parse |-> TRUE, msg |-> m]
BadFrame == [parse |-> FALSE, msg |-> [type |-> "?"]]

ReadyFrame == Frame([type |-> "session_ready", session_id |-> "sess-123"])
FatalFrame ==
  Frame([type |-> "error", code |-> "invalid_api_key", message |-> "Invalid API key",
         fatal |-> TRUE])
NonFatalFrame ==
  Frame([type |-> "error", code |-> "rate_limited", message |-> "Slow down",
         fatal |-> FALSE])

Frames ==
  { ReadyFrame,
    Frame([type |-> "transcript", text |-> "Hello", is_final |-> TRUE, translation |-> "Hola"]),
    Frame([type |-> "audio", audio |-> "QUJD", sequence |-> 1,
           original_text |-> "Hello", translated_text |-> "Hola"]),
    FatalFrame,
    NonFatalFrame,
    Frame([type |-> "session_complete"]),
    Frame([type |-> "pong"]),
    BadFrame }

\* base64 payloads the application or the microphone hands to sendAudio
Payloads == {"QUJD"}

VARIABLES
  ctor,          \* "none" | "ok" | "threw": outcome of new Vox8Client(...)
  config,        \* this.config
  handlers,      \* names of the handlers registered in this.handlers
  ws,            \* this.ws: 0 (null) or the index of a transport in sockets
  sessionReady,  \* this.sessionReady
  state,         \* this._state
  sessionId,     \* this.sessionId
  microphone,    \* this.microphone: Null or the MicrophoneCapture instance
  player,        \* this.player: Null or the AudioPlayer instance
  stopped,       \* the MicrophoneCapture instances the client stopped and dropped
  sockets,       \* every WebSocket created so far, in creation order
  dispatched,    \* handler invocations made by the last step, in order
  last,          \* the last step: operation, transport it ran on, how it ended
  ap,            \* an AudioPlayer of its own, driven directly (SpecPlayer)
  apLog,         \* what was asked of ap and what it did, in order
  bench          \* a call of one of the audio conversion functions: input, result

vars == <<ctor, config, handlers, ws, sessionReady, state, sessionId,
          microphone, player, stopped, sockets, dispatched, last, ap, apLog, bench>>

clientVars == <<ws, sessionReady, state, sessionId, microphone, player, stopped>>

\* the objects exercised on their own, outside a client
benchVars == <<ap, apLog, bench>>


(***************************************************************************)
(* The transport: a WebSocket as the host environment provides it.  The    *)
(* client is written against the standard WebSocket (new WebSocket(url),   *)
(* WebSocket.OPEN, onopen/onmessage/onerror/onclose): events are fired     *)
(* from the event loop, one per step; open fires once, on a connecting     *)
(* transport; messages are delivered only while the transport is open; an  *)
(* error closes the transport and is followed by its close event; close()  *)
(* only starts the closing handshake, the close event comes in a later     *)
(* step.                                                                   *)
(***************************************************************************)
\* new WebSocket(url): connecting, the connect() promise that owns its callbacks
\* still pending.  sent is the set of frame types the transport has accepted so
\* far and gotReady whether a session_ready frame was delivered on it.
NewSocket ==
  [readyState |-> "CONNECTING", sent |-> {}, promise |-> "pending",
   gotReady |-> FALSE, errFired |-> FALSE, closeFired |-> FALSE]

Socks == DOMAIN sockets

\* A transport whose close event has fired is finished: no event fires on it
\* again and send() on it drops the frame.  Of such a transport the model keeps
\* the promise of its connect() call and forgets the record of the connection.
Terminated(sock) ==
  [NewSocket EXCEPT !.readyState = "CLOSED", !.closeFired = TRUE,
                    !.promise = sock.promise]

\* a promise is settled at most once: resolve/reject after that do nothing
Settle(p, outcome) == IF p = "pending" THEN outcome ELSE p

\* WebSocket.send(data) on transport t of socks: throws InvalidStateError while
\* connecting, queues the frame while open, drops it once closing or closed.
\* Result: the transports afterwards, whether the call threw, and the frames
\* that went out, each with the transport that took it.
wsSend(socks, t, data) ==
  CASE socks[t].readyState = "CONNECTING" ->
         [sockets |-> socks, threw |-> TRUE, out |-> <<>>]
    [] socks[t].readyState = "OPEN" ->
         [sockets |-> [socks EXCEPT ![t].sent = @ \cup {data.type}], threw |-> FALSE,
          out |-> <<[sock |-> t, data |-> data]>>]
    [] OTHER -> [sockets |-> socks, threw |-> FALSE, out |-> <<>>]

\* a close() that leaves the transport as it is
wsCloseKeepsOpen(socks, t) == socks

\* WebSocket.close(): starts the closing handshake; the close event is fired
\* later, from the event loop.  No effect on a transport already closing/closed.
wsClose(socks, t) ==
  IF socks[t].readyState \in {"CONNECTING", "OPEN"}
  THEN [socks EXCEPT ![t].readyState = "CLOSING"]
  ELSE socks

\* what the last step was: the operation, the transport it ran on (0: none),
\* its argument, how it ended, and the frames it handed to transports
NoArg == <<>>
Step(op, s, arg, result, out) ==
  [op |-> op, sock |-> s, arg |-> arg, result |-> result, out |-> out]

(***************************************************************************)
(* Vox8Client: construction.                                               *)
(***************************************************************************)
ConfigDefaults == [sourceLanguage |-> "auto", voiceMode |-> "match"]

\* { sourceLanguage: 'auto', voiceMode: 'match', ...config }
mergeConfig(cfg) == cfg @@ ConfigDefaults

\* a constructor that accepts a session token only
missingAuthTokenOnly(cfg) == ~Truthy(Get(cfg, "sessionToken"))

\* the constructor's authentication check
missingAuth(cfg) ==
  ~Truthy(Get(cfg, "sessionToken")) /\ ~Truthy(Get(cfg, "apiKey"))

constructor(inp) ==
  /\ ctor = "none"
  /\ IF missingAuth(inp.config)
     THEN /\ ctor' = "threw"
          /\ last' = Step("constructor", 0, inp.config, "threw", <<>>)
          /\ UNCHANGED <<config, handlers>>
     ELSE /\ ctor' = "ok"
          /\ config' = mergeConfig(inp.config)
          /\ handlers' = inp.handlers
          /\ last' = Step("constructor", 0, inp.config, "returned", <<>>)
  /\ dispatched' = <<>>
  /\ UNCHANGED <<benchVars, stopped, clientVars, sockets>>

(***************************************************************************)
(* Vox8Client: connect() and the four transport callbacks it installs.     *)
(***************************************************************************)
\* a connect() that refuses only once the transport is open
alreadyConnectedOpenOnly == ws # 0 /\ sockets[ws].readyState = "OPEN"

\* if (this.ws): connect() rejects at once
alreadyConnected == ws # 0

connect ==
  /\ ctor = "ok"
  /\ IF alreadyConnected
     THEN /\ last' = Step("connect", ws, NoArg, "rejected", <<>>)
          /\ UNCHANGED <<clientVars, sockets>>
     ELSE /\ state' = "connecting"
          /\ sockets' = Append(sockets, NewSocket)
          /\ ws' = Len(sockets) + 1
          /\ last' = Step("connect", Len(sockets) + 1, NoArg, "pending", <<>>)
          /\ UNCHANGED <<sessionReady, sessionId, microphone, player>>
  /\ dispatched' = <<>>
  /\ UNCHANGED <<benchVars, stopped, ctor, config, handlers>>

\* the session_start object built in ws.onopen
sessionStart(cfg) ==
  [type |-> "session_start",
   source_language |-> Get(cfg, "sourceLanguage"),
   target_language |-> Get(cfg, "targetLanguage"),
   voice_mode |-> Get(cfg, "voiceMode"),
   audio_format |-> "pcm_s16le"]
  @@ (IF Truthy(Get(cfg, "sessionToken"))
      THEN [session_token |-> cfg.sessionToken]
      ELSE IF Truthy(Get(cfg, "apiKey"))
           THEN [api_key |-> cfg.apiKey]
           ELSE [k \in {} |-> Undefined])

\* open event of transport s: the transport becomes OPEN, then ws.onopen runs.
\* this.ws!.send(...) reads this.ws at that moment: a TypeError when it is null.
onopen(s) ==
  /\ s \in Socks
  /\ sockets[s].readyState = "CONNECTING"
  /\ LET opened == [sockets EXCEPT ![s].readyState = "OPEN"]
         r == wsSend(opened, ws, JSONstringify(sessionStart(config)))
     IN IF ws = 0
        THEN /\ sockets' = opened
             /\ last' = Step("onopen", s, NoArg, "threw", <<>>)
        ELSE /\ sockets' = r.sockets
             /\ last' = Step("onopen", s, NoArg, IF r.threw THEN "threw" ELSE "returned", r.out)
  /\ dispatched' = <<>>
  /\ UNCHANGED <<benchVars, stopped, ctor, config, handlers, clientVars>>

\* an onerror that treats the failure as a plain disconnection
onerrorStateDisconnected == "disconnected"

\* this._state as ws.onerror sets it
onerrorState == "error"

\* error event of transport s (the connection failed): ws.onerror runs.
onerror(s) ==
  /\ s \in Socks
  /\ ~sockets[s].errFired /\ ~sockets[s].closeFired
  /\ sockets[s].readyState \in {"CONNECTING", "OPEN", "CLOSING"}
  /\ state' = onerrorState
  /\ sockets' = [sockets EXCEPT ![s].readyState = "CLOSED",
                                ![s].errFired = TRUE,
                                ![s].promise = Settle(@, "rejected")]
  /\ last' = Step("onerror", s, NoArg, "returned", <<>>)
  /\ dispatched' = <<>>
  /\ UNCHANGED <<benchVars, stopped, ctor, config, handlers, ws, sessionReady, sessionId, microphone, player>>

\* close event of transport s: ws.onclose runs.
onclose(s) ==
  /\ s \in Socks
  /\ ~sockets[s].closeFired
  /\ sockets[s].readyState # "CONNECTING"
  /\ sessionReady' = FALSE
  /\ state' = "disconnected"
  /\ ws' = 0
  /\ sockets' = [sockets EXCEPT ![s] = Terminated(@)]
  /\ last' = Step("onclose", s, NoArg, "returned", <<>>)
  /\ dispatched' = <<>>
  /\ UNCHANGED <<benchVars, stopped, ctor, config, handlers, sessionId, microphone, player>>


(***************************************************************************)
(* AudioPlayer (the instance held in this.player).                         *)
(***************************************************************************)
\* segments handed to an AudioPlayer: base64 text, and text atob rejects
InvalidBase64 == {"%%%"}
Segments == {"QUJD", "REVG"} \cup InvalidBase64

\* base64ToArrayBuffer(base64) throws (atob rejects the text)
atobThrows(base64) == base64 \in InvalidBase64

\* new AudioPlayer().  inflight holds the play steps under way, oldest first:
\* the segment each one took and whether it is waiting for decodeAudioData
\* ("decode") or for the end of its buffer source ("render").
NewPlayer == [audioContext |-> FALSE, queue |-> <<>>, isPlaying |-> FALSE, inflight |-> <<>>]

Remove(seq, i) == SubSeq(seq, 1, i - 1) \o SubSeq(seq, i + 1, Len(seq))

\* AudioPlayer.playNext up to its first suspension: idle on an empty queue, else
\* take the head, create the context if absent and start decoding it.  A throw
\* of base64ToArrayBuffer lands in the catch block, which calls playNext again.
RECURSIVE playNext(_)
playNext(p) ==
  IF p.queue = <<>>
  THEN [p EXCEPT !.isPlaying = FALSE]
  ELSE LET q == [p EXCEPT !.isPlaying = TRUE, !.queue = Tail(@), !.audioContext = TRUE]
       IN IF atobThrows(Head(p.queue))
          THEN playNext(q)
          ELSE [q EXCEPT !.inflight = Append(@, [seg |-> Head(p.queue), phase |-> "decode"])]

\* an enqueue that puts the segment at the head of the queue
enqueueAtHead(p, audioBase64) ==
  LET q == [p EXCEPT !.queue = <<audioBase64>> \o @]
  IN IF ~p.isPlaying THEN playNext(q) ELSE q

\* AudioPlayer.enqueue
enqueue(p, audioBase64) ==
  LET q == [p EXCEPT !.queue = Append(@, audioBase64)]
  IN IF ~p.isPlaying THEN playNext(q) ELSE q

\* AudioPlayer.clear
clear(p) == [p EXCEPT !.queue = <<>>, !.isPlaying = FALSE]

\* AudioPlayer.close: clear(), then the context is closed and dropped.  Closing
\* the context ends its rendering for good (the sources it was rendering raise
\* no ended event); a decodeAudioData under way still settles.
close(p) ==
  IF p.audioContext
  THEN [clear(p) EXCEPT !.audioContext = FALSE,
                        !.inflight = SelectSeq(@, LAMBDA o : o.phase = "decode")]
  ELSE clear(p)

\* decodeAudioData of play step i resolves: playNext goes on after its await.
\* this.audioContext.createBufferSource() throws when the context was dropped
\* meanwhile, and the catch block calls playNext; else the source is started.
decodeResolved(p, i) ==
  IF p.audioContext
  THEN [p EXCEPT !.inflight[i].phase = "render"]
  ELSE playNext([p EXCEPT !.inflight = Remove(@, i)])

\* a catch block that logs the failure and stops there
decodeRejectedStalls(p, i) == [p EXCEPT !.inflight = Remove(@, i)]

\* decodeAudioData of play step i rejects: the catch block calls playNext
decodeRejected(p, i) == playNext([p EXCEPT !.inflight = Remove(@, i)])

\* source.onended of play step i: playNext
sourceEnded(p, i) == playNext([p EXCEPT !.inflight = Remove(@, i)])

(***************************************************************************)
(* Vox8Client.handleMessage: the typed event handed to the handler, and    *)
(* the client fields after the dispatch.                                   *)
(***************************************************************************)
\* a delivery that marks the session ready before it dispatches the message
isReadyAtDispatchSetFirst(msg) == sessionReady \/ msg.type = "session_ready"

\* this.sessionReady while the handlers of msg run: ws.onmessage calls
\* handleMessage(msg) first and sets sessionReady and _state after it returns
isReadyAtDispatch(msg) == sessionReady

\* one handler invocation in the delivery of msg, with what the handler finds
\* when it looks at the client: state, isReady, the session identifier (the
\* session_ready case stores it before the call) and whether a sendAudio()
\* made from the handler would send
Call(h, event, msg) ==
  [handler |-> h, event |-> event, state |-> state,
   isReady |-> isReadyAtDispatch(msg),
   sessionId |-> IF msg.type = "session_ready" THEN Get(msg, "session_id") ELSE sessionId,
   sendAudioSends |-> ws # 0 /\ sockets[ws].readyState = "OPEN" /\ isReadyAtDispatch(msg)]

\* this.handlers.h?.(event)
invoke(h, event, msg) == IF h \in handlers THEN <<Call(h, event, msg)>> ELSE <<>>

\* an error case that never leaves the current state
errorStateIgnoresFatal(event) == state

\* an error case that treats every error as fatal
errorStateAlwaysFatal(event) == "error"

\* the error case: this._state after the handler has run
errorState(event) == IF event.fatal = TRUE THEN "error" ELSE state

\* an audio case that never plays what arrives
playbackEnabledNever == FALSE

\* if (this.player) in the audio case: playback is enabled
playbackEnabled == player # Null

handleMessage(msg) ==
  CASE msg.type = "session_ready" ->
         [sessionId |-> Get(msg, "session_id"), state |-> state, player |-> player,
          calls |-> invoke("onSessionReady",
                           [type |-> "session_ready", sessionId |-> Get(msg, "session_id")], msg)]
    [] msg.type = "transcript" ->
         [sessionId |-> sessionId, state |-> state, player |-> player,
          calls |-> invoke("onTranscript",
                           [type |-> "transcript", text |-> Get(msg, "text"),
                            isFinal |-> Get(msg, "is_final"),
                            translation |-> Get(msg, "translation")], msg)]
    [] msg.type = "audio" ->
         [sessionId |-> sessionId, state |-> state,
          player |-> IF playbackEnabled THEN enqueue(player, Get(msg, "audio")) ELSE player,
          calls |-> invoke("onAudio",
                           [type |-> "audio", audio |-> Get(msg, "audio"),
                            sequence |-> Get(msg, "sequence"),
                            originalText |-> Get(msg, "original_text"),
                            translatedText |-> Get(msg, "translated_text")], msg)]
    [] msg.type = "error" ->
         [sessionId |-> sessionId,
          state |-> errorState([fatal |-> Get(msg, "fatal")]),
          player |-> player,
          calls |-> invoke("onError",
                           [type |-> "error", code |-> Get(msg, "code"),
                            message |-> Get(msg, "message"), fatal |-> Get(msg, "fatal")], msg)]
    [] msg.type = "session_complete" ->
         [sessionId |-> sessionId, state |-> state, player |-> player,
          calls |-> invoke("onSessionComplete", [type |-> "session_complete"], msg)]
    [] OTHER ->
         [sessionId |-> sessionId, state |-> state, player |-> player, calls |-> <<>>]

\* an onmessage that waits for the wrong message type
isSessionReadyWrongType(msg) == msg.type = "session_start"

\* an onmessage that takes any message for the start of the session
isSessionReadyAnyType(msg) == TRUE

\* an onmessage that ends the handshake on an error message too
isSessionReadyOrError(msg) == msg.type \in {"session_ready", "error"}

\* if (msg.type === 'session_ready') in ws.onmessage
isSessionReady(msg) == msg.type = "session_ready"

\* message event of transport s carrying frame f: ws.onmessage runs.  The
\* transport delivers frames only while it is open.
onmessage(s, f) ==
  /\ s \in Socks
  /\ sockets[s].readyState = "OPEN"
  /\ IF ~f.parse
     THEN \* JSON.parse throws out of the callback
          /\ last' = Step("onmessage", s, f, "threw", <<>>)
          /\ dispatched' = <<>>
          /\ UNCHANGED <<clientVars, sockets>>
     ELSE LET h == handleMessage(f.msg)
              ready == isSessionReady(f.msg)
          IN /\ f.msg.type = "audio" /\ player # Null => Len(player.queue) < MaxQueue
             /\ sessionId' = h.sessionId
             /\ player' = h.player
             /\ dispatched' = h.calls
             /\ sessionReady' = IF ready THEN TRUE ELSE sessionReady
             /\ state' = IF ready THEN "ready" ELSE h.state
             /\ sockets' = IF ready
                           THEN [sockets EXCEPT ![s].promise = Settle(@, "resolved"),
                                                ![s].gotReady = TRUE]
                           ELSE sockets
             /\ last' = Step("onmessage", s, f, "returned", <<>>)
             /\ UNCHANGED <<ws, microphone>>
  /\ UNCHANGED <<benchVars, stopped, ctor, config, handlers>>


(***************************************************************************)
(* MicrophoneCapture (the instance held in this.microphone).               *)
(***************************************************************************)
\* new MicrophoneCapture() followed by start(cb) up to its await: the callback
\* is stored and getUserMedia is pending
StartedCapture ==
  [onAudioData |-> TRUE, stream |-> FALSE, audioContext |-> FALSE,
   processor |-> FALSE, pending |-> TRUE]

\* a stop() that only forgets the callback
micStopCallbackOnly(m) == [m EXCEPT !.onAudioData = FALSE]

\* MicrophoneCapture.stop: the callback is forgotten; the processor, the
\* stream and the context are released, each if the instance has it.  A
\* getUserMedia call under way is not affected.
micStop(m) ==
  [m EXCEPT !.onAudioData = FALSE, !.processor = FALSE, !.stream = FALSE,
            !.audioContext = FALSE]

\* MicrophoneCapture.start after its await: getUserMedia has resolved, the
\* stream is stored, the context and the processor are created and connected
micAcquired(m) ==
  [m EXCEPT !.pending = FALSE, !.stream = TRUE, !.audioContext = TRUE, !.processor = TRUE]

\* a startMicrophone that forgets the capture when its start() fails
micRejectedDropped(m) == Null

\* getUserMedia rejects: start() rejects at its await and so does
\* startMicrophone(), which has stored the instance and has no catch
micRejected(m) == [m EXCEPT !.pending = FALSE]

\* stopMicrophone(): the capture held, if any, is stopped and dropped.  The
\* result is the set of stopped instances afterwards; instances in the same
\* condition are not told apart.
stopAndDrop(m) == IF m # Null THEN stopped \cup {micStop(m)} ELSE stopped

(***************************************************************************)
(* Vox8Client: the application-facing operations.                          *)
(***************************************************************************)
\* a disconnect() that sends session_end whatever the transport's state
sendsSessionEndUnchecked == ws # 0

\* if (this.ws && this.ws.readyState === WebSocket.OPEN) in disconnect()
sendsSessionEnd == ws # 0 /\ sockets[ws].readyState = "OPEN"

\* disconnect(): session_end on an open transport, capture and playback stopped,
\* the transport closed and dropped, the flags reset.  Were the send to throw,
\* the exception would leave the call before any of the rest.
disconnect ==
  /\ ctor = "ok"
  /\ LET r == IF sendsSessionEnd
              THEN wsSend(sockets, ws, JSONstringify([type |-> "session_end"]))
              ELSE [sockets |-> sockets, threw |-> FALSE, out |-> <<>>]
     IN IF r.threw
        THEN /\ last' = Step("disconnect", ws, NoArg, "threw", <<>>)
             /\ UNCHANGED <<clientVars, sockets>>
        ELSE /\ sockets' = IF ws # 0 THEN wsClose(r.sockets, ws) ELSE r.sockets
             /\ last' = Step("disconnect", ws, NoArg, "returned", r.out)
             /\ microphone' = Null
             /\ stopped' = stopAndDrop(microphone)
             /\ player' = Null
             /\ ws' = 0
             /\ sessionReady' = FALSE
             /\ state' = "disconnected"
             /\ UNCHANGED sessionId
  /\ dispatched' = <<>>
  /\ UNCHANGED <<benchVars, ctor, config, handlers>>

\* the guard of sendAudio: it returns early unless this holds
canSendAudio ==
  ws # 0 /\ sockets[ws].readyState = "OPEN" /\ sessionReady

\* the body of sendAudio(audioBase64): the result of its send, if it makes one
sendAudioBody(audioBase64) ==
  IF canSendAudio
  THEN wsSend(sockets, ws, JSONstringify([type |-> "audio", audio |-> audioBase64]))
  ELSE [sockets |-> sockets, threw |-> FALSE, out |-> <<>>]

sendAudio(audioBase64) ==
  /\ ctor = "ok"
  /\ sockets' = sendAudioBody(audioBase64).sockets
  /\ last' = Step("sendAudio", ws, audioBase64, "returned", sendAudioBody(audioBase64).out)
  /\ dispatched' = <<>>
  /\ UNCHANGED <<benchVars, stopped, ctor, config, handlers, clientVars>>

\* a sendKeepalive that waits for the session, as sendAudio does
canSendKeepaliveWhenReady ==
  ws # 0 /\ sockets[ws].readyState = "OPEN" /\ sessionReady /\ state = "ready"

\* the guard of sendKeepalive
canSendKeepalive == ws # 0 /\ sockets[ws].readyState = "OPEN"

sendKeepalive ==
  /\ ctor = "ok"
  /\ LET r == IF canSendKeepalive
              THEN wsSend(sockets, ws, JSONstringify([type |-> "keepalive"]))
              ELSE [sockets |-> sockets, threw |-> FALSE, out |-> <<>>]
     IN /\ sockets' = r.sockets
        /\ last' = Step("sendKeepalive", ws, NoArg, "returned", r.out)
  /\ dispatched' = <<>>
  /\ UNCHANGED <<benchVars, stopped, ctor, config, handlers, clientVars>>

\* a startMicrophone that starts a new capture on every call
hasMicrophoneNever == FALSE

\* if (this.microphone) in startMicrophone: return at once
hasMicrophone == microphone # Null

\* startMicrophone(): with no capture held, a MicrophoneCapture is created and
\* started, and the call waits for the device ("pending")
startMicrophone ==
  /\ ctor = "ok"
  /\ microphone' = IF hasMicrophone THEN microphone ELSE StartedCapture
  /\ last' = Step("startMicrophone", 0, NoArg,
                  IF hasMicrophone THEN "returned" ELSE "pending", <<>>)
  /\ dispatched' = <<>>
  /\ UNCHANGED <<benchVars, stopped, ctor, config, handlers, ws, sessionReady, state, sessionId, player, sockets>>

\* getUserMedia resolves for the capture the client holds: the rest of
\* MicrophoneCapture.start runs (stream, context and processor are set up)
getUserMediaResolved ==
  /\ microphone # Null /\ microphone.pending
  /\ microphone' = micAcquired(microphone)
  /\ last' = Step("getUserMediaResolved", 0, NoArg, "returned", <<>>)
  /\ dispatched' = <<>>
  /\ UNCHANGED <<benchVars, stopped, ctor, config, handlers, ws, sessionReady, state, sessionId, player, sockets>>

\* getUserMedia rejects: start() and with it startMicrophone() reject
getUserMediaRejected ==
  /\ microphone # Null /\ microphone.pending
  /\ microphone' = micRejected(microphone)
  /\ last' = Step("getUserMediaRejected", 0, NoArg, "rejected", <<>>)
  /\ dispatched' = <<>>
  /\ UNCHANGED <<benchVars, stopped, ctor, config, handlers, ws, sessionReady, state, sessionId, player, sockets>>

\* processor.onaudioprocess: one captured frame, encoded, goes to the callback
\* startMicrophone installed, which calls sendAudio
onaudioprocess(audioBase64) ==
  /\ microphone # Null /\ microphone.processor
  /\ LET r == IF microphone.onAudioData
              THEN sendAudioBody(audioBase64)
              ELSE [sockets |-> sockets, threw |-> FALSE, out |-> <<>>]
     IN /\ sockets' = r.sockets
        /\ last' = Step("onaudioprocess", ws, audioBase64, "returned", r.out)
  /\ dispatched' = <<>>
  /\ UNCHANGED <<benchVars, stopped, ctor, config, handlers, clientVars>>

\* getUserMedia settles for a capture the client stopped while it was waiting:
\* on success the rest of MicrophoneCapture.start runs on the dropped instance
stoppedGetUserMediaResolved ==
  /\ \E m \in stopped :
       /\ m.pending
       /\ stopped' = (stopped \ {m}) \cup {micAcquired(m)}
  /\ last' = Step("stoppedGetUserMediaResolved", 0, NoArg, "returned", <<>>)
  /\ dispatched' = <<>>
  /\ UNCHANGED <<benchVars, ctor, config, handlers, ws, sessionReady, state, sessionId,
                 microphone, player, sockets>>

stoppedGetUserMediaRejected ==
  /\ \E m \in stopped :
       /\ m.pending
       /\ stopped' = (stopped \ {m}) \cup {micRejected(m)}
  /\ last' = Step("stoppedGetUserMediaRejected", 0, NoArg, "rejected", <<>>)
  /\ dispatched' = <<>>
  /\ UNCHANGED <<benchVars, ctor, config, handlers, ws, sessionReady, state, sessionId,
                 microphone, player, sockets>>

\* processor.onaudioprocess of a stopped capture that has a processor: it
\* returns at once when the callback was forgotten
stoppedOnaudioprocess(audioBase64) ==
  /\ \E m \in stopped :
       /\ m.processor
       /\ LET r == IF m.onAudioData
                   THEN sendAudioBody(audioBase64)
                   ELSE [sockets |-> sockets, threw |-> FALSE, out |-> <<>>]
          IN /\ sockets' = r.sockets
             /\ last' = Step("stoppedOnaudioprocess", ws, audioBase64, "returned", r.out)
  /\ dispatched' = <<>>
  /\ UNCHANGED <<benchVars, ctor, config, handlers, clientVars>>

stopMicrophone ==
  /\ ctor = "ok"
  /\ microphone' = Null
  /\ stopped' = stopAndDrop(microphone)
  /\ last' = Step("stopMicrophone", 0, NoArg, "returned", <<>>)
  /\ dispatched' = <<>>
  /\ UNCHANGED <<benchVars, ctor, config, handlers, ws, sessionReady, state, sessionId, player, sockets>>

startPlayback ==
  /\ ctor = "ok"
  /\ player' = IF player = Null THEN NewPlayer ELSE player
  /\ last' = Step("startPlayback", 0, NoArg, "returned", <<>>)
  /\ dispatched' = <<>>
  /\ UNCHANGED <<benchVars, stopped, ctor, config, handlers, ws, sessionReady, state, sessionId, microphone, sockets>>

stopPlayback ==
  /\ ctor = "ok"
  /\ player' = Null
  /\ last' = Step("stopPlayback", 0, NoArg, "returned", <<>>)
  /\ dispatched' = <<>>
  /\ UNCHANGED <<benchVars, stopped, ctor, config, handlers, ws, sessionReady, state, sessionId, microphone, sockets>>

playAudio(audioBase64) ==
  /\ ctor = "ok"
  /\ player # Null => Len(player.queue) < MaxQueue
  /\ player' = enqueue(IF player = Null THEN NewPlayer ELSE player, audioBase64)
  /\ last' = Step("playAudio", 0, audioBase64, "returned", <<>>)
  /\ dispatched' = <<>>
  /\ UNCHANGED <<benchVars, stopped, ctor, config, handlers, ws, sessionReady, state, sessionId, microphone, sockets>>

\* the play steps of the client's player go on: a decode resolves, a decode
\* rejects, a source ends
decoded ==
  /\ player # Null
  /\ \E i \in DOMAIN player.inflight :
       /\ player.inflight[i].phase = "decode"
       /\ player' = decodeResolved(player, i)
  /\ last' = Step("decoded", 0, NoArg, "returned", <<>>)
  /\ dispatched' = <<>>
  /\ UNCHANGED <<benchVars, stopped, ctor, config, handlers, ws, sessionReady, state, sessionId, microphone, sockets>>

decodeFailed ==
  /\ player # Null
  /\ \E i \in DOMAIN player.inflight :
       /\ player.inflight[i].phase = "decode"
       /\ player' = decodeRejected(player, i)
  /\ last' = Step("decodeFailed", 0, NoArg, "returned", <<>>)
  /\ dispatched' = <<>>
  /\ UNCHANGED <<benchVars, stopped, ctor, config, handlers, ws, sessionReady, state, sessionId, microphone, sockets>>

onended ==
  /\ player # Null
  /\ \E i \in DOMAIN player.inflight :
       /\ player.inflight[i].phase = "render"
       /\ player' = sourceEnded(player, i)
  /\ last' = Step("onended", 0, NoArg, "returned", <<>>)
  /\ dispatched' = <<>>
  /\ UNCHANGED <<benchVars, stopped, ctor, config, handlers, ws, sessionReady, state, sessionId, microphone, sockets>>

(***************************************************************************)
(* An AudioPlayer driven directly: enqueue, clear and close calls in any    *)
(* order, interleaved with the completions of its play steps.              *)
(***************************************************************************)
\* enqueue calls made on ap over one run
MaxSegments == 3

\* apLog: the segments enqueued, the segments playNext took off the queue, and
\* the segments whose source was started, each in order; whether clear() or
\* close() was called; and the number of play steps that ended in the catch
\* block
NewLog == [enqueued |-> <<>>, taken |-> <<>>, started |-> <<>>, cleared |-> FALSE, failed |-> 0]

\* the segments a step took off the queue, given the queue it started from
Taken(queueBefore, p) == SubSeq(queueBefore, 1, Len(queueBefore) - Len(p.queue))

apEnqueue(seg) ==
  /\ Len(apLog.enqueued) < MaxSegments
  /\ ap' = enqueue(ap, seg)
  /\ apLog' = [apLog EXCEPT !.enqueued = Append(@, seg),
                            !.taken = @ \o Taken(Append(ap.queue, seg), ap'),
                            !.failed = @ + Cardinality({k \in DOMAIN Taken(Append(ap.queue, seg), ap') :
                                                         atobThrows(Taken(Append(ap.queue, seg), ap')[k])})]
  /\ UNCHANGED <<ctor, config, handlers, clientVars, sockets, dispatched, last, bench>>

apClear ==
  /\ ap' = clear(ap)
  /\ apLog' = [apLog EXCEPT !.cleared = TRUE]
  /\ UNCHANGED <<ctor, config, handlers, clientVars, sockets, dispatched, last, bench>>

apClose ==
  /\ ap' = close(ap)
  /\ apLog' = [apLog EXCEPT !.cleared = TRUE]
  /\ UNCHANGED <<ctor, config, handlers, clientVars, sockets, dispatched, last, bench>>

apDecoded(i) ==
  /\ i \in DOMAIN ap.inflight /\ ap.inflight[i].phase = "decode"
  /\ ap' = decodeResolved(ap, i)
  /\ apLog' = [apLog EXCEPT !.taken = @ \o Taken(ap.queue, ap'),
                            !.started = IF ap.audioContext THEN Append(@, ap.inflight[i].seg) ELSE @,
                            !.failed = @ + (IF ap.audioContext THEN 0 ELSE 1)
                                         + Cardinality({k \in DOMAIN Taken(ap.queue, ap') :
                                                          atobThrows(Taken(ap.queue, ap')[k])})]
  /\ UNCHANGED <<ctor, config, handlers, clientVars, sockets, dispatched, last, bench>>

apDecodeFailed(i) ==
  /\ i \in DOMAIN ap.inflight /\ ap.inflight[i].phase = "decode"
  /\ ap' = decodeRejected(ap, i)
  /\ apLog' = [apLog EXCEPT !.taken = @ \o Taken(ap.queue, ap'),
                            !.failed = @ + 1 + Cardinality({k \in DOMAIN Taken(ap.queue, ap') :
                                                             atobThrows(Taken(ap.queue, ap')[k])})]
  /\ UNCHANGED <<ctor, config, handlers, clientVars, sockets, dispatched, last, bench>>

apEnded(i) ==
  /\ i \in DOMAIN ap.inflight /\ ap.inflight[i].phase = "render"
  /\ ap' = sourceEnded(ap, i)
  /\ apLog' = [apLog EXCEPT !.taken = @ \o Taken(ap.queue, ap'),
                            !.failed = @ + Cardinality({k \in DOMAIN Taken(ap.queue, ap') :
                                                         atobThrows(Taken(ap.queue, ap')[k])})]
  /\ UNCHANGED <<ctor, config, handlers, clientVars, sockets, dispatched, last, bench>>

(***************************************************************************)
(* The client and its environment.                                         *)
(***************************************************************************)
(***************************************************************************)
(* The audio conversion functions (audio.ts).                              *)
(***************************************************************************)
\* Samples are multiples of 1/SampleDen, exact in a Float32Array: a sample is
\* its numerator, or NaN.  MaxSamples is the length of the arrays converted.
SampleDen == 4
MaxSamples == 2

NaN == [nan |-> TRUE, num |-> 0]
Sample(k) == [nan |-> FALSE, num |-> k]
SampleValues == {Sample(k) : k \in (-2 * SampleDen)..(2 * SampleDen)} \cup {NaN}
SampleArrays == UNION {[1..n -> SampleValues] : n \in 0..MaxSamples}

\* Math.min and Math.max: NaN when an argument is NaN
MathMin(x, y) == IF x.nan \/ y.nan THEN NaN ELSE IF x.num <= y.num THEN x ELSE y
MathMax(x, y) == IF x.nan \/ y.nan THEN NaN ELSE IF x.num >= y.num THEN x ELSE y

\* a conversion that does not clamp
clampNone(x) == x

\* Math.max(-1, Math.min(1, x))
clamp(x) == MathMax(Sample(-SampleDen), MathMin(Sample(SampleDen), x))

\* storing the number num/den into an Int16Array element: NaN becomes 0, else
\* the fraction is dropped and the integer wrapped to 16 bits, two's complement
ToInt16(x, den) ==
  IF x.nan THEN 0
  ELSE LET trunc == IF x.num >= 0 THEN x.num \div den ELSE -((-x.num) \div den)
           m == trunc % 65536
       IN IF m >= 32768 THEN m - 65536 ELSE m

\* floatTo16BitPCM: s < 0 ? s * 0x8000 : s * 0x7fff for each clamped sample
\* (s < 0 is false for NaN, and NaN * 0x7fff is NaN)
floatTo16BitPCM(float32Array) ==
  [i \in 1..Len(float32Array) |->
     LET s == clamp(float32Array[i])
     IN ToInt16(IF s.nan THEN NaN
                ELSE IF s.num < 0 THEN Sample(s.num * 32768) ELSE Sample(s.num * 32767),
                SampleDen)]

\* Byte arrays handed to the base64 functions.
MaxBytes == 4
ByteValues == {0, 1, 2, 127, 128, 255}
ByteArrays == UNION {[1..n -> ByteValues] : n \in 0..MaxBytes}

\* the base64 alphabet; a base64 text is a sequence of these characters and "="
B64Alphabet ==
  << "A", "B", "C", "D", "E", "F", "G", "H", "I", "J", "K", "L", "M",
     "N", "O", "P", "Q", "R", "S", "T", "U", "V", "W", "X", "Y", "Z",
     "a", "b", "c", "d", "e", "f", "g", "h", "i", "j", "k", "l", "m",
     "n", "o", "p", "q", "r", "s", "t", "u", "v", "w", "x", "y", "z",
     "0", "1", "2", "3", "4", "5", "6", "7", "8", "9", "+", "/" >>

B64Char(v) == B64Alphabet[v + 1]
B64Value(c) == (CHOOSE i \in DOMAIN B64Alphabet : B64Alphabet[i] = c) - 1

\* btoa(binary): binary is the sequence of the string's character codes (0..255)
RECURSIVE btoa(_)
btoa(binary) ==
  IF Len(binary) = 0 THEN <<>>
  ELSE IF Len(binary) = 1
  THEN << B64Char(binary[1] \div 4), B64Char((binary[1] % 4) * 16), "=", "=" >>
  ELSE IF Len(binary) = 2
  THEN << B64Char(binary[1] \div 4),
          B64Char((binary[1] % 4) * 16 + binary[2] \div 16),
          B64Char((binary[2] % 16) * 4), "=" >>
  ELSE << B64Char(binary[1] \div 4),
          B64Char((binary[1] % 4) * 16 + binary[2] \div 16),
          B64Char((binary[2] % 16) * 4 + binary[3] \div 64),
          B64Char(binary[3] % 64) >> \o btoa(SubSeq(binary, 4, Len(binary)))

\* the text without the one or two "=" that may end it
RECURSIVE stripPadding(_)
stripPadding(text) ==
  IF Len(text) > 0 /\ text[Len(text)] = "=" /\ Len(text) % 4 \in {0, 3}
  THEN IF Len(text) % 4 = 0
       THEN stripPadding(SubSeq(text, 1, Len(text) - 1))
       ELSE SubSeq(text, 1, Len(text) - 1)
  ELSE text

\* the bytes of unpadded base64 characters: 8 bits out of every 6 read, the
\* bits left over at the end dropped
RECURSIVE decodeChars(_)
decodeChars(chars) ==
  IF Len(chars) < 2 THEN <<>>
  ELSE LET v == [i \in 1..Len(chars) |-> B64Value(chars[i])]
       IN IF Len(chars) = 2
          THEN << v[1] * 4 + v[2] \div 16 >>
          ELSE IF Len(chars) = 3
          THEN << v[1] * 4 + v[2] \div 16, (v[2] % 16) * 16 + v[3] \div 4 >>
          ELSE << v[1] * 4 + v[2] \div 16, (v[2] % 16) * 16 + v[3] \div 4,
                  (v[3] % 4) * 64 + v[4] >> \o decodeChars(SubSeq(chars, 5, Len(chars)))

\* atob(text): the character codes of the decoded binary string; it throws on
\* a text with a character outside the alphabet or of an impossible length
atobOk(text) ==
  /\ \A i \in DOMAIN stripPadding(text) :
       \E j \in DOMAIN B64Alphabet : B64Alphabet[j] = stripPadding(text)[i]
  /\ Len(stripPadding(text)) % 4 # 1
atob(text) == decodeChars(stripPadding(text))

\* a read of the binary string that takes the codes as signed bytes
charCodeAtSigned(binary, i) == IF binary[i] > 127 THEN binary[i] - 256 ELSE binary[i]

\* binaryString.charCodeAt(i), stored into a Uint8Array
charCodeAt(binary, i) == binary[i] % 256

\* arrayBufferToBase64: String.fromCharCode of each byte, then btoa
arrayBufferToBase64(bytes) == btoa([i \in 1..Len(bytes) |-> bytes[i]])

\* base64ToArrayBuffer: atob, then each character code into a Uint8Array
base64ToArrayBuffer(base64) ==
  [i \in 1..Len(atob(base64)) |-> charCodeAt(atob(base64), i)]

\* One conversion call, its input and its result.
callFloatTo16BitPCM ==
  /\ bench.op = "samples"
  /\ bench' = [op |-> "floatTo16BitPCM", input |-> bench.input,
               output |-> floatTo16BitPCM(bench.input)]
  /\ UNCHANGED <<ctor, config, handlers, clientVars, sockets, dispatched, last, ap, apLog>>

callArrayBufferToBase64 ==
  /\ bench.op = "bytes"
  /\ bench' = [op |-> "arrayBufferToBase64", input |-> bench.input,
               output |-> arrayBufferToBase64(bench.input)]
  /\ UNCHANGED <<ctor, config, handlers, clientVars, sockets, dispatched, last, ap, apLog>>

\* base64ToArrayBuffer applied to the text the last call produced
callBase64ToArrayBuffer ==
  /\ bench.op = "arrayBufferToBase64"
  /\ atobOk(bench.output)
  /\ bench' = [op |-> "base64ToArrayBuffer", input |-> bench.output,
               output |-> base64ToArrayBuffer(bench.output)]
  /\ UNCHANGED <<ctor, config, handlers, clientVars, sockets, dispatched, last, ap, apLog>>

\* no conversion called
NoCall == [op |-> "none", input |-> <<>>, output |-> <<>>]

\* the fields of a client before construction, and a fresh AudioPlayer
ClientInit ==
  /\ ctor = "none"
  /\ config = [k \in {} |-> Undefined]
  /\ handlers = {}
  /\ ws = 0
  /\ sessionReady = FALSE
  /\ state = "disconnected"
  /\ sessionId = NullString
  /\ microphone = Null
  /\ player = Null
  /\ stopped = {}
  /\ sockets = <<>>
  /\ dispatched = <<>>
  /\ last = Step("init", 0, NoArg, "returned", <<>>)
  /\ ap = NewPlayer
  /\ apLog = NewLog

Init == ClientInit /\ bench = NoCall

\* The connection: every interleaving of application calls and transport
\* events over up to MaxSockets transports, capture and playback not in use.
Next ==
  \/ \E inp \in CtorInputs : constructor(inp)
  \/ connect /\ Len(sockets') <= MaxSockets
  \/ disconnect
  \/ \E a \in Payloads : sendAudio(a)
  \/ sendKeepalive
  \/ \E s \in 1..MaxSockets : onopen(s)
  \/ \E s \in 1..MaxSockets, f \in Frames : onmessage(s, f)
  \/ \E s \in 1..MaxSockets : onerror(s)
  \/ \E s \in 1..MaxSockets : onclose(s)

Spec == Init /\ [][Next]_vars

\* The same steps over MaxReconnects transports: an application that
\* reconnects while transports of its earlier connections are still closing.
NextReconnect ==
  \/ \E inp \in CtorInputs : constructor(inp)
  \/ connect /\ Len(sockets') <= MaxReconnects
  \/ disconnect
  \/ \E a \in Payloads : sendAudio(a)
  \/ \E s \in 1..MaxReconnects : onopen(s)
  \/ \E s \in 1..MaxReconnects : onmessage(s, ReadyFrame)
  \/ \E s \in 1..MaxReconnects : onclose(s)

SpecReconnect == Init /\ [][NextReconnect]_vars

\* Capture and playback next to one connection.
NextAudio ==
  \/ \E inp \in CtorInputs : constructor(inp)
  \/ connect /\ Len(sockets') <= 1
  \/ disconnect
  \/ \E a \in Payloads : sendAudio(a)
  \/ \E f \in Frames : onopen(1) \/ onmessage(1, f) \/ onclose(1)
  \/ startMicrophone
  \/ stopMicrophone
  \/ startPlayback
  \/ stopPlayback
  \/ \E a \in Payloads : playAudio(a)
  \/ getUserMediaResolved
  \/ getUserMediaRejected
  \/ \E a \in Payloads : onaudioprocess(a)
  \/ stoppedGetUserMediaResolved
  \/ stoppedGetUserMediaRejected
  \/ \E a \in Payloads : stoppedOnaudioprocess(a)
  \/ decoded
  \/ decodeFailed
  \/ onended

SpecAudio == Init /\ [][NextAudio]_vars

\* An AudioPlayer on its own.
NextPlayer ==
  \/ \E seg \in Segments : apEnqueue(seg)
  \/ apClear
  \/ apClose
  \/ \E i \in 1..MaxSegments : apDecoded(i)
  \/ \E i \in 1..MaxSegments : apDecodeFailed(i)
  \/ \E i \in 1..MaxSegments : apEnded(i)

SpecPlayer == Init /\ [][NextPlayer]_vars

\* An AudioPlayer that is only enqueued to (no clear(), no close()), on a
\* device layer where every decodeAudioData settles and every started source
\* ends.
NextPlaying ==
  \/ \E seg \in Segments : apEnqueue(seg)
  \/ \E i \in 1..MaxSegments : apDecoded(i)
  \/ \E i \in 1..MaxSegments : apDecodeFailed(i)
  \/ \E i \in 1..MaxSegments : apEnded(i)

SpecPlaying ==
  /\ Init /\ [][NextPlaying]_vars
  /\ WF_vars(\E i \in 1..MaxSegments : apDecoded(i) \/ apDecodeFailed(i))
  /\ WF_vars(\E i \in 1..MaxSegments : apEnded(i))

\* floatTo16BitPCM applied to every array of up to MaxSamples samples.
InitPCM ==
  /\ ClientInit
  /\ bench \in {[op |-> "samples", input |-> a, output |-> <<>>] : a \in SampleArrays}

NextPCM ==
  \/ callFloatTo16BitPCM

SpecPCM == InitPCM /\ [][NextPCM]_vars

\* The base64 functions applied to every array of up to MaxBytes bytes.
InitBase64 ==
  /\ ClientInit
  /\ bench \in {[op |-> "bytes", input |-> b, output |-> <<>>] : b \in ByteArrays}

NextBase64 ==
  \/ callArrayBufferToBase64
  \/ callBase64ToArrayBuffer

SpecBase64 == InitBase64 /\ [][NextBase64]_vars

(***************************************************************************)
(* Properties of the connection.                                           *)
(***************************************************************************)
CredentialKeys(cfg) == DOMAIN cfg \cap {"sessionToken", "apiKey"}

\* C1: constructing with a config that has neither sessionToken nor apiKey
\* throws and yields no client (nothing is ever opened); constructing with
\* exactly one credential succeeds, and the new client is 'disconnected' with
\* isReady false.
C1_ConstructorNeedsCredential ==
  /\ ctor = "threw" => ws = 0 /\ sockets = <<>> /\ ~sessionReady
  /\ last.op = "constructor" =>
       /\ CredentialKeys(last.arg) = {} => ctor = "threw" /\ last.result = "threw"
       /\ ( /\ Cardinality(CredentialKeys(last.arg)) = 1
            /\ \A k \in CredentialKeys(last.arg) : last.arg[k] # "" )
          => /\ ctor = "ok" /\ last.result = "returned"
             /\ state = "disconnected" /\ ~sessionReady

C1_Witness ==
  last.op = "constructor" /\ CredentialKeys(last.arg) = {} /\ ctor = "threw"

\* C2: a session_ready message delivered on the transport of a pending
\* connect() resolves that connect(), sets state to 'ready' and isReady to
\* true; and no connect() resolves in any step other than the delivery of
\* session_ready on its own transport.
C2_SessionReadyResolvesConnect ==
  [][ /\ ( /\ last'.op = "onmessage" /\ last'.arg = ReadyFrame
           /\ sockets[last'.sock].promise = "pending" )
         => /\ sockets'[last'.sock].promise = "resolved"
            /\ state' = "ready" /\ sessionReady'
      /\ \A s \in DOMAIN sockets :
           (sockets[s].promise # "resolved" /\ sockets'[s].promise = "resolved")
           => last'.op = "onmessage" /\ last'.sock = s /\ last'.arg = ReadyFrame
    ]_vars

C2_Witness ==
  /\ last.op = "onmessage" /\ last.arg = ReadyFrame
  /\ sockets[last.sock].promise = "resolved"
  /\ state = "ready" /\ sessionReady

\* the session_start frame the configuration calls for
ExpectedSessionStart ==
  [type |-> "session_start",
   target_language |-> config.targetLanguage,
   source_language |-> config.sourceLanguage,
   voice_mode |-> config.voiceMode,
   audio_format |-> "pcm_s16le"]
  @@ (IF "sessionToken" \in DOMAIN config /\ config.sessionToken # ""
      THEN [session_token |-> config.sessionToken]
      ELSE [api_key |-> config.apiKey])

\* C3: on each transport open event the client sends exactly one
\* session_start, on that transport and as its first frame, carrying the
\* configured languages and voice mode (defaults 'auto' and 'match'),
\* audio_format 'pcm_s16le' and exactly one credential field; no other step
\* sends a session_start.
C3_SessionStartOnOpen ==
  [][ /\ last'.op = "onopen" =>
           /\ last'.out = << [sock |-> last'.sock, data |-> ExpectedSessionStart] >>
           /\ sockets[last'.sock].sent = {}
      /\ last'.op = "constructor" /\ ctor' = "ok" =>
           /\ config'.sourceLanguage =
                IF "sourceLanguage" \in DOMAIN last'.arg
                THEN last'.arg.sourceLanguage ELSE "auto"
           /\ config'.voiceMode =
                IF "voiceMode" \in DOMAIN last'.arg THEN last'.arg.voiceMode ELSE "match"
           /\ config'.targetLanguage = last'.arg.targetLanguage
      /\ last'.op # "onopen" =>
           \A i \in DOMAIN last'.out : last'.out[i].data.type # "session_start"
    ]_vars

\* C4: connect() while the client holds a transport rejects at once and
\* changes nothing: state, isReady, the transport handle, every transport and
\* the earlier connect()'s pending promise stay as they were, and no transport
\* is created.
C4_ConnectWhileConnectedRejected ==
  [][ (last'.op = "connect" /\ ws # 0) =>
        /\ last'.result = "rejected"
        /\ UNCHANGED <<ws, sessionReady, state, sessionId, microphone, player, sockets>>
    ]_vars

C4_Witness ==
  /\ last.op = "connect" /\ last.result = "rejected"
  /\ ws # 0 /\ sockets[ws].promise = "pending"

\* C5: a transport error event while its connect() is pending rejects that
\* connect() and sets state to 'error'; the client opens no new transport and
\* keeps its handle.
C5_TransportErrorRejectsConnect ==
  [][ (last'.op = "onerror" /\ sockets[last'.sock].promise = "pending") =>
        /\ sockets'[last'.sock].promise = "rejected"
        /\ state' = "error"
        /\ Len(sockets') = Len(sockets) /\ ws' = ws
    ]_vars

C5_Witness ==
  /\ last.op = "onerror" /\ sockets[last.sock].promise = "rejected"
  /\ state = "error"

\* C6: sendAudio is a no-op unless state is 'ready': with state disconnected,
\* connecting or error it sends nothing and does not throw; with state 'ready'
\* it sends exactly one {type: 'audio', audio: payload} frame.
C6_SendAudioOnlyWhenReady ==
  last.op = "sendAudio" =>
    /\ last.result = "returned"
    /\ state \in {"disconnected", "connecting", "error"} => last.out = <<>>
    /\ state = "ready" =>
         /\ Len(last.out) = 1
         /\ last.out[1].data = [type |-> "audio", audio |-> last.arg]

\* C7: no audio frame goes out on a transport before a session_ready message
\* has been received on that same transport.
C7_NoAudioBeforeSessionReady ==
  \A i \in DOMAIN last.out :
    last.out[i].data.type = "audio" => sockets[last.out[i].sock].gotReady

\* C8: a fatal error message delivered in state 'ready' invokes the error
\* handler exactly once with the decoded code, message and fatal fields, the
\* handler observing state 'ready', and leaves state 'error'.
C8_FatalErrorAfterReady ==
  [][ (last'.op = "onmessage" /\ last'.arg = FatalFrame /\ state = "ready") =>
        /\ state' = "error"
        /\ Len(dispatched') = IF "onError" \in handlers THEN 1 ELSE 0
        /\ \A i \in DOMAIN dispatched' :
             /\ dispatched'[i].handler = "onError"
             /\ dispatched'[i].event =
                  [type |-> "error", code |-> "invalid_api_key",
                   message |-> "Invalid API key", fatal |-> TRUE]
             /\ dispatched'[i].state = "ready"
    ]_vars

C8_Witness ==
  /\ last.op = "onmessage" /\ last.arg = FatalFrame
  /\ state = "error"
  /\ Len(dispatched) = 1 /\ dispatched[1].handler = "onError"
  /\ dispatched[1].state = "ready"

\* C9: an error message without the fatal flag invokes the error handler and
\* changes nothing else: state, isReady, the transport handle, the session
\* identifier and the transports are unchanged.
C9_NonFatalErrorChangesNothing ==
  [][ (last'.op = "onmessage" /\ last'.arg = NonFatalFrame) =>
        /\ UNCHANGED <<ws, sessionReady, state, sessionId, microphone, player, sockets>>
        /\ "onError" \in handlers =>
             /\ Len(dispatched') = 1
             /\ dispatched'[1].handler = "onError"
             /\ dispatched'[1].event =
                  [type |-> "error", code |-> "rate_limited",
                   message |-> "Slow down", fatal |-> FALSE]
    ]_vars

C9_Witness ==
  /\ last.op = "onmessage" /\ last.arg = NonFatalFrame
  /\ state = "ready" /\ sessionReady
  /\ Len(dispatched) = 1

\* C10: disconnect() never throws and leaves state 'disconnected'; a
\* disconnect() that directly follows a disconnect() sends nothing; and
\* session_end goes out at most once on a transport.
C10_DisconnectIdempotent ==
  [][ /\ last'.op = "disconnect" =>
           last'.result = "returned" /\ state' = "disconnected"
      /\ (last.op = "disconnect" /\ last'.op = "disconnect") =>
           last'.out = <<>> /\ sockets' = sockets
      /\ \A i \in DOMAIN last'.out :
           last'.out[i].data.type = "session_end"
           => "session_end" \notin sockets[last'.out[i].sock].sent
    ]_vars

C10_Witness ==
  /\ last.op = "disconnect" /\ last.sock = 0 /\ last.out = <<>>
  /\ state = "disconnected"
  /\ \E s \in DOMAIN sockets : "session_end" \in sockets[s].sent

(***************************************************************************)
(* Properties of disconnect, the session identifier, keepalive and the     *)
(* inbound messages.                                                       *)
(***************************************************************************)
\* C11: disconnect() in any state returns with state 'disconnected', isReady
\* false and no transport handle, capture instance or playback instance held.
\* When the transport it held was open, exactly one session_end frame was
\* accepted by that transport (so sent before the close); when it was still
\* connecting, nothing is sent.  The transport it held is closing or closed
\* afterwards.
C11_DisconnectReleasesEverything ==
  [][ last'.op = "disconnect" =>
        /\ last'.result = "returned"
        /\ state' = "disconnected" /\ ~sessionReady'
        /\ ws' = 0 /\ microphone' = Null /\ player' = Null
        /\ ws # 0 =>
             /\ sockets'[ws].readyState \in {"CLOSING", "CLOSED"}
             /\ IF sockets[ws].readyState = "OPEN"
                THEN /\ last'.out = << [sock |-> ws, data |-> [type |-> "session_end"]] >>
                     /\ "session_end" \in sockets'[ws].sent
                ELSE last'.out = <<>>
        /\ ws = 0 => last'.out = <<>> /\ sockets' = sockets
    ]_vars

\* disconnect() of a client with an open transport, a capture and a player
C11_Witness ==
  /\ last.op = "disconnect" /\ last.sock # 0
  /\ Len(last.out) = 1 /\ last.out[1].data.type = "session_end"
  /\ sockets[last.sock].readyState = "CLOSING"
  /\ state = "disconnected" /\ ws = 0 /\ microphone = Null /\ player = Null

\* C12: in every state with state 'disconnected' no session identifier is
\* stored: the identifier recorded from session_ready is cleared by
\* disconnect() and by a transport close event.
C12_SessionIdClearedWhenDisconnected ==
  state = "disconnected" => sessionId = NullString

\* C13: sendKeepalive() sends exactly one {type: 'keepalive'} frame when the
\* client holds an open transport, whatever state and isReady are, and nothing
\* otherwise; it never throws and changes no field of the client; and no step
\* other than a sendKeepalive() call sends a keepalive.
C13_KeepaliveOnlyOnOpenTransport ==
  [][ /\ last'.op = "sendKeepalive" =>
           /\ last'.result = "returned"
           /\ UNCHANGED <<ws, sessionReady, state, sessionId, microphone, player>>
           /\ last'.out = IF ws # 0 /\ sockets[ws].readyState = "OPEN"
                          THEN << [sock |-> ws, data |-> [type |-> "keepalive"]] >>
                          ELSE <<>>
      /\ last'.op # "sendKeepalive" =>
           \A i \in DOMAIN last'.out : last'.out[i].data.type # "keepalive"
    ]_vars

\* a keepalive sent after a fatal error, the transport still open
C13_Witness ==
  /\ last.op = "sendKeepalive" /\ Len(last.out) = 1
  /\ state = "error"

\* a keepalive sent before session_ready
C13_WitnessBeforeReady ==
  /\ last.op = "sendKeepalive" /\ Len(last.out) = 1
  /\ state = "connecting" /\ ~sessionReady

\* the message types handleMessage has a case for
KnownTypes == {"session_ready", "transcript", "audio", "error", "session_complete"}

\* C14: an inbound message whose type is none of session_ready, transcript,
\* audio, error, session_complete is ignored: the callback returns normally, no
\* handler is invoked, nothing is sent, nothing is enqueued for playback, and
\* state, isReady, the session identifier and every other field of the client
\* are unchanged.
C14_UnknownMessageIgnored ==
  [][ ( /\ last'.op = "onmessage" /\ last'.arg.parse
        /\ last'.arg.msg.type \notin KnownTypes )
      => /\ last'.result = "returned"
         /\ dispatched' = <<>>
         /\ last'.out = <<>>
         /\ UNCHANGED <<ws, sessionReady, state, sessionId, microphone, player, sockets>>
    ]_vars

\* an unknown message delivered to a ready client with playback enabled
C14_Witness ==
  /\ last.op = "onmessage" /\ last.arg.parse /\ last.arg.msg.type = "pong"
  /\ state = "ready" /\ sessionReady /\ player # Null
  /\ handlers = AllHandlers

\* C15: a malformed inbound frame (text JSON.parse rejects) is silently
\* ignored: the message callback returns without raising, no handler is
\* invoked and the client is unchanged.
C15_MalformedFrameIgnored ==
  [][ (last'.op = "onmessage" /\ ~last'.arg.parse) =>
        /\ last'.result = "returned"
        /\ dispatched' = <<>>
        /\ UNCHANGED <<ws, sessionReady, state, sessionId, microphone, player, sockets>>
    ]_vars

(***************************************************************************)
(* Properties of the AudioPlayer.                                          *)
(***************************************************************************)
\* C16: an AudioPlayer has at most one decode/render operation in flight at
\* any time, under any sequence of enqueue(), clear() and close() calls
\* interleaved with the completions and failures of its play steps.
C16_OnePlayStepInFlight ==
  Len(ap.inflight) <= 1

\* a is b with some of its elements left out, the order kept
RECURSIVE IsSubSeq(_, _)
IsSubSeq(a, b) ==
  IF a = <<>> THEN TRUE
  ELSE IF b = <<>> THEN FALSE
  ELSE IF Head(a) = Head(b) THEN IsSubSeq(Tail(a), Tail(b))
  ELSE IsSubSeq(a, Tail(b))

DecodesInFlight == Cardinality({i \in DOMAIN ap.inflight : ap.inflight[i].phase = "decode"})

\* C17: as long as neither clear() nor close() was called, the segments are
\* taken off the queue in enqueue order, each exactly once: the segments taken
\* so far followed by the segments still queued are the segments enqueued;
\* one play step runs at a time; every segment taken is either started, in
\* the same order, or skipped by the catch block; and once no play step is
\* under way every enqueued segment has been taken and the player is idle.
C17_PlayedInEnqueueOrder ==
  ~apLog.cleared =>
    /\ apLog.taken \o ap.queue = apLog.enqueued
    /\ Len(ap.inflight) <= 1
    /\ IsSubSeq(apLog.started, apLog.taken)
    /\ Len(apLog.started) + apLog.failed + DecodesInFlight = Len(apLog.taken)
    /\ ap.inflight = <<>> =>
         ap.queue = <<>> /\ ~ap.isPlaying /\ apLog.taken = apLog.enqueued

\* three segments enqueued while the first was decoding; the second failed to
\* decode, the first and the third were played, in that order
C17_Witness ==
  /\ ~apLog.cleared
  /\ apLog.enqueued = <<"QUJD", "REVG", "QUJD">>
  /\ apLog.taken = apLog.enqueued
  /\ apLog.started = <<"QUJD", "QUJD">> /\ apLog.failed = 1
  /\ ap.inflight = <<>> /\ ~ap.isPlaying

(***************************************************************************)
(* Properties of playback and capture inside the client.                   *)
(***************************************************************************)
\* the segments a player still has to finish: those in its play steps, then
\* those in its queue
PendingSegments(p) ==
  [i \in DOMAIN p.inflight |-> p.inflight[i].seg] \o p.queue

\* C18: every inbound audio message invokes the audio handler (when one is
\* registered) exactly once with the fields audio, sequence, originalText,
\* translatedText taken from the message; its payload is handed to the
\* player exactly once when the client holds a player, and when it holds none
\* nothing is enqueued and no player is created.  The client holds a player
\* from startPlayback() or playAudio() until stopPlayback() or disconnect().
C18_AudioDispatchedAndEnqueued ==
  [][ /\ ( /\ last'.op = "onmessage" /\ last'.arg.parse
           /\ last'.arg.msg.type = "audio" )
         => /\ Len(dispatched') = IF "onAudio" \in handlers THEN 1 ELSE 0
            /\ \A i \in DOMAIN dispatched' :
                 /\ dispatched'[i].handler = "onAudio"
                 /\ dispatched'[i].event =
                      [type |-> "audio",
                       audio |-> last'.arg.msg.audio,
                       sequence |-> last'.arg.msg.sequence,
                       originalText |-> last'.arg.msg.original_text,
                       translatedText |-> last'.arg.msg.translated_text]
            /\ IF player = Null
               THEN player' = Null
               ELSE /\ player' # Null
                    /\ PendingSegments(player') =
                         Append(PendingSegments(player), last'.arg.msg.audio)
      /\ last'.op \in {"startPlayback", "playAudio"} => player' # Null
      /\ last'.op \in {"stopPlayback", "disconnect"} => player' = Null
      /\ last'.op \notin {"startPlayback", "playAudio", "stopPlayback", "disconnect"}
           => (player' = Null <=> player = Null)
    ]_vars

\* an audio message delivered to a client that holds a player: handler called,
\* payload in the player
C18_Witness ==
  /\ last.op = "onmessage" /\ last.arg.parse /\ last.arg.msg.type = "audio"
  /\ Len(dispatched) = 1 /\ dispatched[1].handler = "onAudio"
  /\ player # Null /\ PendingSegments(player) # <<>>

\* an audio message delivered to a client without player
C18_WitnessNoPlayback ==
  /\ last.op = "onmessage" /\ last.arg.parse /\ last.arg.msg.type = "audio"
  /\ Len(dispatched) = 1 /\ player = Null

\* C19: startMicrophone() while the client holds a capture instance, started
\* or still waiting for the device, returns at once and leaves that instance
\* as it is; with none held it creates exactly one; stopMicrophone() with none
\* held changes nothing; after stopMicrophone() or disconnect() none is held.
\* The client thus holds at most one capture instance, the one created by the
\* last startMicrophone() that found none.
C19_MicrophoneIdempotent ==
  [][ /\ (last'.op = "startMicrophone" /\ microphone # Null) =>
           /\ last'.result = "returned"
           /\ UNCHANGED <<ws, sessionReady, state, sessionId, microphone, player, sockets>>
      /\ (last'.op = "startMicrophone" /\ microphone = Null) =>
           /\ last'.result = "pending"
           /\ microphone' # Null /\ microphone'.pending
           /\ UNCHANGED <<ws, sessionReady, state, sessionId, player, sockets>>
      /\ (last'.op = "stopMicrophone" /\ microphone = Null) =>
           UNCHANGED <<ws, sessionReady, state, sessionId, microphone, player, sockets>>
      /\ last'.op \in {"stopMicrophone", "disconnect"} => microphone' = Null
      /\ (microphone = Null /\ microphone' # Null) => last'.op = "startMicrophone"
    ]_vars

\* startMicrophone() called again while the first call still waits for the
\* device
C19_Witness ==
  /\ last.op = "startMicrophone" /\ last.result = "returned"
  /\ microphone # Null /\ microphone.pending

\* startMicrophone() called again on a running capture
C19_WitnessRunning ==
  /\ last.op = "startMicrophone" /\ last.result = "returned"
  /\ microphone # Null /\ microphone.stream

(***************************************************************************)
(* Properties of the error state.                                          *)
(***************************************************************************)
\* C20: once state is 'error' no inbound message, of any type, changes it;
\* state leaves 'error' only in a disconnect() call, a transport close event
\* or a connect() that opens a new transport.
C20_ErrorStateTerminal ==
  [][ state = "error" =>
        /\ last'.op = "onmessage" => state' = "error"
        /\ state' # "error" => last'.op \in {"disconnect", "onclose", "connect"}
    ]_vars

(***************************************************************************)
(* Properties of the connect() result.                                     *)
(***************************************************************************)
\* C21: a connect() does not stay pending for ever once its transport is
\* gone: when the close event of a transport has fired (after which no event
\* of that transport can fire), the connect() that created it is settled;
\* and it is rejected unless session_ready had arrived before.
C21_ConnectSettledOnClose ==
  \A s \in DOMAIN sockets :
    sockets[s].closeFired => sockets[s].promise \in {"resolved", "rejected"}

(***************************************************************************)
(* Properties of the audio conversion functions.                           *)
(***************************************************************************)
\* C22: floatTo16BitPCM preserves the length and converts each sample on its
\* own; 0 gives 0, 1 gives 32767, -1 gives -32768, a sample above 1 gives
\* 32767 and a sample below -1 gives -32768; every output is in
\* -32768..32767.
C22_FloatTo16BitPCM ==
  bench.op = "floatTo16BitPCM" =>
    /\ Len(bench.output) = Len(bench.input)
    /\ \A i \in DOMAIN bench.input :
         /\ bench.output[i] \in -32768..32767
         /\ bench.output[i] = floatTo16BitPCM(<< bench.input[i] >>)[1]
         /\ ~bench.input[i].nan =>
              /\ bench.input[i].num = 0 => bench.output[i] = 0
              /\ bench.input[i].num >= SampleDen => bench.output[i] = 32767
              /\ bench.input[i].num <= -SampleDen => bench.output[i] = -32768

\* the array [2.0, -2.0] converted
C22_Witness ==
  /\ bench.op = "floatTo16BitPCM"
  /\ bench.input = << Sample(2 * SampleDen), Sample(-2 * SampleDen) >>
  /\ bench.output = << 32767, -32768 >>

\* C23: for every byte array b, the empty one included,
\* base64ToArrayBuffer(arrayBufferToBase64(b)) is b: atob accepts the text
\* arrayBufferToBase64 produced, and decoding it gives back the bytes.
C23_Base64RoundTrip ==
  [][ /\ bench'.op = "arrayBufferToBase64" => atobOk(bench'.output)
      /\ bench'.op = "base64ToArrayBuffer" => bench'.output = bench.input
    ]_vars

\* a round trip of bytes above 127, of a length that needs padding
C23_Witness ==
  /\ bench.op = "base64ToArrayBuffer"
  /\ bench.output = << 255, 0, 128, 1 >>
  /\ bench.input = << "/", "w", "C", "A", "A", "Q", "=", "=" >>

(***************************************************************************)
(* Progress of the AudioPlayer.                                            *)
(***************************************************************************)
\* C24: when every decode settles and every started source ends, and neither
\* clear() nor close() is called, every enqueued segment is eventually taken
\* off the queue and attempted, whatever happened to the segments before it,
\* and the player comes back to idle (isPlaying false, queue empty, no play
\* step under way) after its last segment.
C24_PlayerMakesProgress ==
  /\ \A n \in 1..MaxSegments :
       (Len(apLog.enqueued) >= n) ~> (Len(apLog.taken) >= n)
  /\ []<>(~ap.isPlaying /\ ap.queue = <<>> /\ ap.inflight = <<>>)
  /\ <>[](apLog.taken = apLog.enqueued)

\* idle again after three segments of which the first failed to decode and
\* the second was not base64 at all
C24_Witness ==
  /\ apLog.enqueued = <<"REVG", "%%%", "QUJD">>
  /\ apLog.taken = apLog.enqueued
  /\ apLog.started = <<"QUJD">> /\ apLog.failed = 2
  /\ ~ap.isPlaying /\ ap.queue = <<>> /\ ap.inflight = <<>>

(***************************************************************************)
(* Properties of dropped transports and of the order inside one delivery.  *)
(***************************************************************************)
\* C25: an event of a transport the client has dropped in disconnect() (the
\* transport is closing: close() was called on it and its close event has not
\* fired yet) changes neither state, isReady nor the transport handle.
C25_DroppedTransportEventsIgnored ==
  [][ ( /\ last'.op \in {"onopen", "onmessage", "onerror", "onclose"}
        /\ sockets[last'.sock].readyState = "CLOSING" )
      => UNCHANGED <<state, sessionReady, ws>>
    ]_vars

\* C26: when session_ready is delivered to a client that is not ready yet
\* (state 'connecting', isReady false), the onSessionReady handler runs before
\* the client becomes ready: it finds the session identifier recorded, isReady
\* still false and state still 'connecting', and a sendAudio() it made would
\* send nothing; when the delivery is over, isReady is true, state is 'ready'
\* and the connect() of that transport is resolved.
C26_SessionReadyDispatchedBeforeReady ==
  [][ ( /\ last'.op = "onmessage" /\ last'.arg = ReadyFrame
        /\ state = "connecting" /\ ~sessionReady )
      => /\ Len(dispatched') = IF "onSessionReady" \in handlers THEN 1 ELSE 0
         /\ \A i \in DOMAIN dispatched' :
              /\ dispatched'[i].handler = "onSessionReady"
              /\ dispatched'[i].event = [type |-> "session_ready", sessionId |-> "sess-123"]
              /\ dispatched'[i].sessionId = "sess-123"
              /\ dispatched'[i].state = "connecting"
              /\ ~dispatched'[i].isReady
              /\ ~dispatched'[i].sendAudioSends
         /\ sessionId' = "sess-123"
         /\ sessionReady' /\ state' = "ready"
         /\ sockets[last'.sock].promise = "pending"
              => sockets'[last'.sock].promise = "resolved"
    ]_vars

\* the handler has run during the handshake and the client is ready now
C26_Witness ==
  /\ last.op = "onmessage" /\ last.arg = ReadyFrame
  /\ Len(dispatched) = 1 /\ dispatched[1].handler = "onSessionReady"
  /\ dispatched[1].state = "connecting" /\ ~dispatched[1].isReady
  /\ state = "ready" /\ sessionReady
  /\ sockets[last.sock].promise = "resolved"

\* C27: in every reachable state, state 'ready' implies isReady, and isReady
\* is false in state 'disconnected' and in state 'connecting'.
C27_StateAndIsReadyAgree ==
  /\ state = "ready" => sessionReady
  /\ state \in {"disconnected", "connecting"} => ~sessionReady

(***************************************************************************)
(* Properties of errors during the handshake.                              *)
(***************************************************************************)
\* C28: a fatal error message delivered while the connect() of its transport
\* is pending invokes the error handler once and sets state to 'error', and
\* the connect() stays pending; a pending connect() is settled only by the
\* error event of its transport or by a session_ready message on it.
C28_FatalErrorLeavesConnectPending ==
  [][ /\ ( /\ last'.op = "onmessage" /\ last'.arg = FatalFrame
           /\ sockets[last'.sock].promise = "pending" )
         => /\ state' = "error"
            /\ Len(dispatched') = IF "onError" \in handlers THEN 1 ELSE 0
            /\ \A i \in DOMAIN dispatched' : dispatched'[i].handler = "onError"
            /\ sockets'[last'.sock].promise = "pending"
      /\ \A s \in DOMAIN sockets :
           (sockets[s].promise = "pending" /\ sockets'[s].promise # "pending")
           => /\ last'.sock = s
              /\ \/ last'.op = "onerror" /\ sockets'[s].promise = "rejected"
                 \/ /\ last'.op = "onmessage" /\ last'.arg = ReadyFrame
                    /\ sockets'[s].promise = "resolved"
    ]_vars

\* the handshake was answered by a fatal error: state 'error', connect()
\* still pending
C28_Witness ==
  /\ last.op = "onmessage" /\ last.arg = FatalFrame
  /\ ~sockets[last.sock].gotReady
  /\ sockets[last.sock].promise = "pending"
  /\ state = "error" /\ Len(dispatched) = 1

(***************************************************************************)
(* Properties of the microphone's resources.                               *)
(***************************************************************************)
\* C29: a capture the client has stopped (stopMicrophone() or disconnect())
\* holds no input stream, no frame processor and no audio context once its
\* device acquisition is over, also when it was stopped while still waiting
\* for the device; and a frame event of a stopped capture sends nothing.
C29_NoMicrophoneResourceOutlivesStop ==
  /\ \A m \in stopped :
       ~m.pending => ~m.stream /\ ~m.processor /\ ~m.audioContext
  /\ last.op = "stoppedOnaudioprocess" => last.out = <<>>

\* the client holds a capture whose device acquisition failed
FailedCapture(m) == m # Null /\ ~m.pending /\ ~m.stream

\* C30: when the device layer rejects the acquisition, startMicrophone()
\* fails and the client keeps the capture instance, which has acquired
\* nothing; every later startMicrophone() returns at once and leaves it so;
\* only stopMicrophone() or disconnect() removes it.
C30_FailedCaptureStaysRecorded ==
  [][ /\ last'.op = "getUserMediaRejected" =>
           /\ last'.result = "rejected"
           /\ FailedCapture(microphone')
           /\ ~microphone'.processor /\ ~microphone'.audioContext
      /\ (FailedCapture(microphone) /\ last'.op = "startMicrophone") =>
           /\ last'.result = "returned"
           /\ microphone' = microphone
      /\ (FailedCapture(microphone) /\ microphone' # microphone) =>
           /\ last'.op \in {"stopMicrophone", "disconnect"}
           /\ microphone' = Null
    ]_vars

\* startMicrophone() called after a failed acquisition: nothing happens
C30_Witness ==
  /\ last.op = "startMicrophone" /\ last.result = "returned"
  /\ FailedCapture(microphone)

=============================================================================
